---- MODULE Spec2Model ----
(***************************************************************************)
(* The contact-form function: its pure validators and heuristic filters,   *)
(* the in-memory rate limiter, and the request handler contactForm as a    *)
(* state machine whose steps are the stretches of code between two await   *)
(* points.  Strings are sequences of one-character strings.                *)
(***************************************************************************)
EXTENDS Integers, Sequences, FiniteSets, TLC

VARIABLES
    now,              \* Date.now(), in ms
    rateLimitStore,   \* the Map identifier -> [count, resetTime]
    env,              \* process configuration: captcha secret, connection string
    inv,              \* the handler invocations in flight
    window,           \* history: per identifier, the current window and its calls
    rejectedLater,    \* history: per followed identifier, the slots of the current
                      \* window whose requests a later validation step answered
    lastCall,         \* history: the last direct checkRateLimit call and its result
    maxReq,           \* the maxRequests the direct calls pass
    text,             \* the argument of the isGibberish call
    verdict           \* the value the isGibberish call returned

vars ==
    <<now, rateLimitStore, env, inv, window, rejectedLater, lastCall, maxReq, text,
      verdict>>

\* ------------------------------------------------------------------ bounds
MaxLen == 6           \* longest string given to isGibberish
MaxWindows == 2       \* the clock stops after this many windows
MaxSkew == 1          \* 1 ms steps taken past a multiple of the window
MaxMaxRequests == 3   \* largest maxRequests the direct calls pass
NumInv == 2           \* handler invocations that may be in flight together

\* ------------------------------------------------------- program constants
DefaultMaxRequests == 3
WindowMs == 60000
HandlerMaxRequests == 3
ScoreThreshold == 5   \* 0.5, scores are counted in tenths

\* -------------------------------------------------------------- characters
Vowels == {"a", "e", "i", "o", "u", "A", "E", "I", "O", "U"}
Digits == {"0", "1", "2", "3", "4", "5", "6", "7", "8", "9"}
Whitespace == {" ", "\t", "\n", "\r", "\f"}
LineTerminators == {"\n", "\r"}
UpperCase ==
    <<"A","B","C","D","E","F","G","H","I","J","K","L","M",
      "N","O","P","Q","R","S","T","U","V","W","X","Y","Z">>
LowerCase ==
    <<"a","b","c","d","e","f","g","h","i","j","k","l","m",
      "n","o","p","q","r","s","t","u","v","w","x","y","z">>

toLowerCaseChar(c) ==
    IF \E i \in 1..26 : UpperCase[i] = c
    THEN LowerCase[CHOOSE i \in 1..26 : UpperCase[i] = c]
    ELSE c

toLowerCase(s) == [i \in 1..Len(s) |-> toLowerCaseChar(s[i])]

\* s.trim() === ''
trimIsEmpty(s) == \A i \in 1..Len(s) : s[i] \in Whitespace

\* pat occurs in s starting at index i
occursAt(s, i, pat) ==
    /\ i >= 1
    /\ i + Len(pat) - 1 <= Len(s)
    /\ \A k \in 1..Len(pat) : s[i + k - 1] = pat[k]

count(s, S) == Cardinality({i \in 1..Len(s) : s[i] \in S})

\* ------------------------------------------------------------- isGibberish
\* /(.)\1{2,}/ : three equal characters in a row, "." matching any character
\* but a line terminator
hasRepeatedChars(t) ==
    \E i \in 1..(Len(t) - 2) :
        /\ t[i] \notin LineTerminators
        /\ t[i + 1] = t[i]
        /\ t[i + 2] = t[i]

isGibberish(t) ==
    IF Len(t) < 2 THEN FALSE
    ELSE LET vowelCount == count(t, Vowels)
             consonantCount == Len(t) - vowelCount
         IN  IF vowelCount = 0 \/ 10 * consonantCount > 8 * Len(t) THEN TRUE
             ELSE hasRepeatedChars(t)

\* ------------------------------------------------------------ containsUrls
TopLevelDomains ==
    { <<"c","o","m">>, <<"n","e","t">>, <<"o","r","g">>, <<"e","d","u">>,
      <<"g","o","v">>, <<"m","i","l">>, <<"i","n","t">>, <<"c","o">>,
      <<"i","o">>, <<"l","y">>, <<"m","e">>, <<"t","v">>,
      <<"i","n","f","o">>, <<"b","i","z">>, <<"n","a","m","e">>,
      <<"m","o","b","i">>, <<"t","e","l">>, <<"t","r","a","v","e","l">> }
UrlPrefixes ==
    { <<"h","t","t","p",":","/","/">>, <<"h","t","t","p","s",":","/","/">>,
      <<"w","w","w",".">> }

containsUrls(t) ==
    LET s == toLowerCase(t)
    IN  \/ \E i \in 1..Len(s) : \E p \in UrlPrefixes :
               /\ occursAt(s, i, p)
               /\ i + Len(p) <= Len(s)
               /\ s[i + Len(p)] \notin Whitespace
        \/ \E i \in 2..Len(s) :
               /\ s[i] = "."
               /\ s[i - 1] \notin Whitespace
               /\ \E tld \in TopLevelDomains : occursAt(s, i + 1, tld)

\* -------------------------------------------------------------- validators
\* /^[^\s@]+@[^\s@]+\.[^\s@]+$/
isValidEmail(e) ==
    /\ \A i \in 1..Len(e) : e[i] \notin Whitespace
    /\ count(e, {"@"}) = 1
    /\ \E i \in 2..Len(e) :
           /\ e[i] = "@"
           /\ \E j \in (i + 2)..(Len(e) - 1) : e[j] = "."

isValidPhone(p) == count(p, Digits) >= 10

\* /^\d{5}(-\d{4})?$/
isValidZipCode(z) ==
    \/ Len(z) = 5 /\ \A i \in 1..5 : z[i] \in Digits
    \/ /\ Len(z) = 10
       /\ \A i \in 1..5 : z[i] \in Digits
       /\ z[6] = "-"
       /\ \A i \in 7..10 : z[i] \in Digits

\* ------------------------------------------------------------ rate limiter
\* line 37: no record, or the record's window is over
rateLimitFresh(store, id, t) ==
    id \notin DOMAIN store \/ t > store[id].resetTime

checkRateLimitResultOffByOne(store, id, maxRequests, t) ==
    IF rateLimitFresh(store, id, t) THEN TRUE
    ELSE ~(store[id].count > maxRequests)

\* the value checkRateLimit returns
checkRateLimitResult(store, id, maxRequests, t) ==
    IF rateLimitFresh(store, id, t) THEN TRUE
    ELSE ~(store[id].count >= maxRequests)

put(store, id, rec) ==
    [k \in DOMAIN store \cup {id} |-> IF k = id THEN rec ELSE store[k]]

checkRateLimitStoreLostUpdate(store, id, maxRequests, windowMs, t) ==
    IF rateLimitFresh(store, id, t)
    THEN put(store, id, [count |-> 1, resetTime |-> t + windowMs])
    ELSE store

\* a limiter that prunes: opening a window drops the other expired records
checkRateLimitStorePruning(store, id, maxRequests, windowMs, t) ==
    IF rateLimitFresh(store, id, t)
    THEN [k \in {j \in DOMAIN store : ~(t > store[j].resetTime)} \cup {id} |->
             IF k = id THEN [count |-> 1, resetTime |-> t + windowMs] ELSE store[k]]
    ELSE IF store[id].count >= maxRequests THEN store
    ELSE put(store, id, [count |-> store[id].count + 1,
                         resetTime |-> store[id].resetTime])

\* a limiter that counts the calls it denies as well
checkRateLimitStoreCountingDenied(store, id, maxRequests, windowMs, t) ==
    IF rateLimitFresh(store, id, t)
    THEN put(store, id, [count |-> 1, resetTime |-> t + windowMs])
    ELSE put(store, id, [count |-> store[id].count + 1,
                         resetTime |-> store[id].resetTime])

\* the rateLimitStore checkRateLimit leaves
checkRateLimitStore(store, id, maxRequests, windowMs, t) ==
    IF rateLimitFresh(store, id, t)
    THEN put(store, id, [count |-> 1, resetTime |-> t + windowMs])
    ELSE IF store[id].count >= maxRequests THEN store
    ELSE put(store, id, [count |-> store[id].count + 1,
                         resetTime |-> store[id].resetTime])

\* ----------------------------------------------------------- configuration
RECIPIENT_ADDRESSES ==
    <<"brad@bullattorneys.com", "sudheer@bullattorneys.com", "web@bullattorneys.com">>
BLOCKED_EMAILS ==
    { <<"j","a","c","o","b","r","o","y","v","i","s","s","e","r","5","5","@",
        "g","m","a","i","l",".","c","o","m">>,
      <<"j","a","c","o","b","v","i","s","s","e","r","4","5","@",
        "g","m","a","i","l",".","c","o","m">> }
\* RECAPTCHA_SECRET_KEY set or not; CONNECTION_STRING missing, present but
\* refused by the EmailClient constructor, or present and accepted
Environments == [secret : BOOLEAN, conn : {"missing", "invalid", "valid"}]

\* --------------------------------------------------------------- responses
JsonHeaders ==
    { <<"Access-Control-Allow-Origin", "*">>, <<"Content-Type", "application/json">> }
PreflightHeaders ==
    { <<"Access-Control-Allow-Origin", "*">>,
      <<"Access-Control-Allow-Methods", "POST, OPTIONS">>,
      <<"Access-Control-Allow-Headers", "Content-Type, Accept">>,
      <<"Access-Control-Max-Age", "86400">> }
NoResponse == [status |-> 0, headers |-> {}, body |-> {}]
PreflightResponse == [status |-> 200, headers |-> PreflightHeaders, body |-> {}]
ErrorResponseNoCors(status, message) ==
    [status |-> status, headers |-> {<<"Content-Type", "application/json">>},
     body |-> {<<"error", message>>}]
ErrorResponse(status, message) ==
    [status |-> status, headers |-> JsonHeaders, body |-> {<<"error", message>>}]
SendFailedResponse(errorMessage) ==
    [status |-> 500, headers |-> JsonHeaders,
     body |-> {<<"error", "Failed to send email">>, <<"details", errorMessage>>}]
SuccessResponse ==
    [status |-> 200, headers |-> JsonHeaders,
     body |-> {<<"success", "true">>, <<"message", "Form submitted successfully">>}]
InternalErrorResponse == ErrorResponse(500, "Internal server error")

\* ------------------------------------------------------- the parsed body
\* What JSON.parse(await request.text()) gives: a throw ("invalid"), null,
\* a value with no properties of its own ("primitive": a number, a boolean,
\* a string, an array), or an object whose fields are strings.
truthy(f, k) == k \in DOMAIN f /\ f[k] # <<>>

requiredFields == <<"firstName", "lastName", "email", "phone", "zipCode", "caseType">>
maxLengthFields ==
    <<"firstName", "lastName", "email", "phone", "zipCode", "caseType", "description">>
maxLengths ==
    [firstName |-> 50, lastName |-> 50, email |-> 100, phone |-> 20,
     zipCode |-> 10, caseType |-> 50, description |-> 1200]

\* line 178
honeypotTriggered(f) == truthy(f, "website") /\ ~trimIsEmpty(f["website"])

\* line 191
blockedEmail(f) == truthy(f, "email") /\ toLowerCase(f["email"]) \in BLOCKED_EMAILS

\* line 219
fieldMissing(f, k) == ~truthy(f, k) \/ trimIsEmpty(f[k])

\* line 245
fieldTooLong(f, k) == truthy(f, k) /\ Len(f[k]) > maxLengths[k]

\* lines 218-230: the first required field that is missing
firstMissing(f) ==
    requiredFields[CHOOSE i \in 1..Len(requiredFields) :
        /\ fieldMissing(f, requiredFields[i])
        /\ \A j \in 1..(i - 1) : ~fieldMissing(f, requiredFields[j])]

\* lines 243-255: the first field that is too long
firstTooLong(f) ==
    maxLengthFields[CHOOSE i \in 1..Len(maxLengthFields) :
        /\ fieldTooLong(f, maxLengthFields[i])
        /\ \A j \in 1..(i - 1) : ~fieldTooLong(f, maxLengthFields[j])]

\* lines 152-201: body parse, the log of the parsed fields, honeypot, blocklist;
\* NoResponse when the request goes on to the rate limiter
beforeRateLimit(body) ==
    IF body.kind = "invalid" THEN ErrorResponse(400, "Invalid request format")
    ELSE IF body.kind = "null" THEN InternalErrorResponse
    ELSE IF honeypotTriggered(body.fields) THEN ErrorResponse(400, "Spam detected")
    ELSE IF blockedEmail(body.fields) THEN ErrorResponse(400, "Email not allowed")
    ELSE NoResponse

\* lines 216-317: required fields, lengths, formats, gibberish, URLs;
\* NoResponse when the request goes on to the captcha step
afterRateLimit(f) ==
    IF \E i \in 1..Len(requiredFields) : fieldMissing(f, requiredFields[i])
    THEN ErrorResponse(400, firstMissing(f) \o " is required")
    ELSE IF \E i \in 1..Len(maxLengthFields) : fieldTooLong(f, maxLengthFields[i])
    THEN ErrorResponse(400, firstTooLong(f) \o " is too long (max "
                                \o ToString(maxLengths[firstTooLong(f)])
                                \o " characters)")
    ELSE IF ~isValidEmail(f["email"])
    THEN ErrorResponse(400, "Invalid email format")
    ELSE IF ~isValidPhone(f["phone"])
    THEN ErrorResponse(400, "Invalid phone number")
    ELSE IF ~isValidZipCode(f["zipCode"])
    THEN ErrorResponse(400, "Invalid zip code format")
    ELSE IF isGibberish(f["firstName"]) \/ isGibberish(f["lastName"])
    THEN ErrorResponse(400, "Please enter valid names")
    ELSE IF truthy(f, "description") /\ containsUrls(f["description"])
    THEN ErrorResponse(400, "URLs are not allowed in the description")
    ELSE NoResponse

\* ------------------------------------------------------- captcha verifier
\* What the verification endpoint answers: the fetch rejects ("transport"),
\* response.json() rejects ("parse"), the JSON is null ("null"), or it is an
\* object whose success is absent/true/false and whose score is absent (-1)
\* or a number of tenths.
NoData == [kind |-> "none", success |-> "absent", score |-> -1]
TransportFailure == [kind |-> "transport", success |-> "absent", score |-> -1]
CaptchaAnswers ==
    { [kind |-> "parse", success |-> "absent", score |-> -1],
      [kind |-> "null", success |-> "absent", score |-> -1] }
    \cup [kind : {"object"}, success : {"absent", "true", "false"},
          score : {-1, ScoreThreshold - 1, ScoreThreshold, ScoreThreshold + 4}]

\* lines 61-69: the value validateRecaptcha resolves with
validateRecaptcha(data) ==
    IF data.kind # "object" THEN [success |-> FALSE, score |-> 0]
    ELSE [success |-> data.success = "true",
          score |-> IF data.score = -1 THEN 0 ELSE data.score]

recaptchaPassedIgnoringScore(result) == result.success

\* line 334, negated
recaptchaPassed(result) == result.success /\ ~(result.score < ScoreThreshold)

\* ------------------------------------------------------------ invocations
Procs == 1..NumInv
NoBody == [kind |-> "none", fields |-> <<>>]
IdleInv ==
    [pc |-> "idle", method |-> "", ip |-> "", body |-> NoBody, resp |-> NoResponse,
     rl |-> "none", passedBefore |-> 0, verifyCalls |-> 0, captcha |-> NoData,
     dispatchCalls |-> 0, recipients |-> <<>>, sendOutcome |-> "none",
     sendEntered |-> FALSE, slotWindow |-> -1]

respond(r, resp) == [r EXCEPT !.pc = "done", !.resp = resp]

sendEmailTwice(r0, e) ==
    LET r == [r0 EXCEPT !.sendEntered = TRUE]
    IN  IF e.conn = "missing"
        THEN respond(r, ErrorResponse(500, "Email service not configured"))
        ELSE IF e.conn = "invalid" THEN respond(r, InternalErrorResponse)
        ELSE [r EXCEPT !.pc = "awaitBeginSend",
                       !.dispatchCalls = r.dispatchCalls + 2,
                       !.recipients = RECIPIENT_ADDRESSES]

\* lines 348-395: the credential check, new EmailClient, the message, beginSend
sendEmail(r0, e) ==
    LET r == [r0 EXCEPT !.sendEntered = TRUE]
    IN  IF e.conn = "missing"
        THEN respond(r, ErrorResponse(500, "Email service not configured"))
        ELSE IF e.conn = "invalid" THEN respond(r, InternalErrorResponse)
        ELSE [r EXCEPT !.pc = "awaitBeginSend",
                       !.dispatchCalls = r.dispatchCalls + 1,
                       !.recipients = RECIPIENT_ADDRESSES]

\* lines 319-333 and 53: the token and secret checks, the call of validateRecaptcha
captchaStep(r, e) ==
    IF ~truthy(r.body.fields, "recaptchaToken") THEN sendEmail(r, e)
    ELSE IF ~e.secret THEN respond(r, ErrorResponse(500, "reCAPTCHA not configured"))
    ELSE [r EXCEPT !.pc = "awaitFetch", !.verifyCalls = r.verifyCalls + 1]

captchaDoneAs500(r, data, e) ==
    LET got == [r EXCEPT !.captcha = data]
    IN  IF ~recaptchaPassed(validateRecaptcha(data))
        THEN respond(got, ErrorResponse(500, "reCAPTCHA validation failed"))
        ELSE sendEmail(got, e)

\* lines 333-346: validateRecaptcha has resolved
captchaDone(r, data, e) ==
    LET got == [r EXCEPT !.captcha = data]
    IN  IF ~recaptchaPassed(validateRecaptcha(data))
        THEN respond(got, ErrorResponse(400, "reCAPTCHA validation failed"))
        ELSE sendEmail(got, e)

\* ----------------------------------------------------------- the requests
Methods == {"OPTIONS", "POST", "GET"}
ForwardedFor == {"", "10.0.0.1"}     \* x-forwarded-for; "" when absent
RealIp == {"", "10.0.0.1"}           \* x-real-ip; "" when absent
FaultMessages == {"ECONNRESET", "Unauthorized"}

repeat(c, n) == [i \in 1..n |-> c]

BaseFields ==
    [firstName |-> <<"J","o","h","n">>,
     lastName |-> <<"S","m","i","t","h">>,
     email |-> <<"a","@","b",".","c","o","m">>,
     phone |-> <<"(","3","1","6",")"," ","6","8","4","-","4","4","0","0">>,
     zipCode |-> <<"6","7","2","0","2">>,
     caseType |-> <<"I","n","j","u","r","y">>]

\* One change to a submission: a field set to a value, or left out
set(k, v) == [field |-> k, present |-> TRUE, value |-> v]
omit(k) == [field |-> k, present |-> FALSE, value |-> <<>>]
SpamSite == set("website", <<"h","t","t","p",":","/","/","s","p","a","m",".","b","i","z">>)
WithToken == set("recaptchaToken", <<"t","o","k">>)
WithUrl ==
    set("description",
        <<"C","h","e","c","k"," ","o","u","t"," ","h","t","t","p",":","/","/",
          "e","x","a","m","p","l","e",".","c","o","m">>)
BlockedSender ==
    set("email", <<"J","a","c","o","b","R","o","y","V","i","s","s","e","r","5","5","@",
                   "G","m","a","i","l",".","c","o","m">>)
Changes ==
    { SpamSite, WithToken, WithUrl, BlockedSender,
      set("website", <<" "," ">>),
      omit("firstName"), set("lastName", <<" "," ">>), omit("email"),
      set("phone", <<>>), omit("zipCode"), omit("caseType"),
      set("firstName", repeat("a", maxLengths["firstName"] + 1)),
      set("email", repeat("a", maxLengths["email"] + 1)),
      set("phone", repeat("1", maxLengths["phone"] + 1)),
      set("zipCode", repeat("1", maxLengths["zipCode"] + 1)),
      set("caseType", repeat("a", maxLengths["caseType"] + 1)),
      set("description", repeat("a", maxLengths["description"] + 1)),
      set("email", <<"n","o","t","-","a","n","-","e","m","a","i","l">>),
      set("phone", <<"1","2","3","4","5">>),
      set("zipCode", <<"a","b","c">>),
      set("zipCode", <<"6","7","2","0","2","-","1","2","3","4">>),
      set("firstName", <<"b","c","d","f","g">>),
      set("lastName", <<"L","e","e","e">>),
      set("description", <<"H","e","l","l","o"," ","t","h","e","r","e">>) }

apply(f, c) ==
    [k \in (IF c.present THEN DOMAIN f \cup {c.field} ELSE DOMAIN f \ {c.field}) |->
        IF k = c.field THEN c.value ELSE f[k]]

object(f) == [kind |-> "object", fields |-> f]
NonObjects ==
    { [kind |-> "invalid", fields |-> <<>>],
      [kind |-> "null", fields |-> <<>>],
      [kind |-> "primitive", fields |-> <<>>] }
\* the bodies of the concurrent specification
ConcBodies == { object(BaseFields), object(apply(BaseFields, SpamSite)) }
\* the bodies of the slot specification: one that is answered at each step
\* before the rate limiter, some that are answered at a step after it, and
\* the fully valid submission
SlotBodies ==
    NonObjects
    \cup { object(apply(BaseFields, c)) :
             c \in { SpamSite, BlockedSender, WithToken, WithUrl, omit("firstName"),
                     set("zipCode", <<"a","b","c">>),
                     set("firstName", <<"b","c","d","f","g">>) } }
    \cup { object(BaseFields) }
SlotAnswers ==
    { a \in CaptchaAnswers :
        \/ a.kind = "parse"
        \/ a.kind = "object" /\ a.success = "true" /\ a.score >= ScoreThreshold - 1 }
\* the bodies of the one-request-at-a-time specification: up to two changes
AllBodies ==
    NonObjects
    \cup { object(apply(apply(BaseFields, c), d)) : c \in Changes, d \in Changes }
    \cup { object(apply(BaseFields, c)) : c \in Changes }
    \cup { object(BaseFields) }

\* --------------------------------------------------------- history of calls
NoCall == [id |-> "", result |-> FALSE, nth |-> 0, at |-> 0, renewed |-> FALSE]
CallCap == (IF MaxMaxRequests > HandlerMaxRequests
            THEN MaxMaxRequests ELSE HandlerMaxRequests) + 1
windowOpen(w, id, t) == id \in DOMAIN w /\ ~(t > w[id].start + WindowMs)
passedSoFar(w, id, t) == IF windowOpen(w, id, t) THEN w[id].passed ELSE 0
windowAfter(w, id, t, allowed) ==
    LET add == IF allowed THEN 1 ELSE 0
    IN  IF windowOpen(w, id, t)
        THEN put(w, id, [start |-> w[id].start,
                         calls |-> IF w[id].calls < CallCap
                                   THEN w[id].calls + 1 ELSE CallCap,
                         passed |-> IF w[id].passed < CallCap
                                    THEN w[id].passed + add ELSE CallCap])
        ELSE put(w, id, [start |-> t, calls |-> 1, passed |-> add])

\* the slots of id's current window whose requests were answered by one of
\* the validation steps that follow the rate limiter; the identifiers followed
\* are those of DOMAIN rej
NotFollowed == <<>>
Unrejected == [start |-> -1, n |-> 0]
rejectedSoFar(rej, w, id) ==
    IF id \in DOMAIN rej /\ id \in DOMAIN w /\ rej[id].start = w[id].start
    THEN rej[id].n ELSE 0
\* one more such request, its slot taken in the window that began at start
noteRejected(rej, w, id, start) ==
    IF id \in DOMAIN rej /\ id \in DOMAIN w /\ w[id].start = start
    THEN [rej EXCEPT ![id] = [start |-> start, n |-> rejectedSoFar(rej, w, id) + 1]]
    ELSE rej
validationFailed(r) == r.pc = "done" /\ r.rl = "allowed" /\ r.resp.status = 400

\* ----------------------------------------------------------------- actions
\* The clock moves on
Tick(d) ==
    /\ now + d <= MaxWindows * WindowMs + MaxSkew
    /\ d = 1 => (now % WindowMs) < MaxSkew
    /\ now' = now + d
    /\ UNCHANGED <<rateLimitStore, env, inv, window, rejectedLater, lastCall, maxReq,
                 text, verdict>>

\* checkRateLimit(id, maxReq, WindowMs), called on its own
CallCheckRateLimit(id) ==
    /\ rateLimitStore' = checkRateLimitStore(rateLimitStore, id, maxReq, WindowMs, now)
    /\ window' = windowAfter(window, id, now,
                             checkRateLimitResult(rateLimitStore, id, maxReq, now))
    /\ lastCall' = [id |-> id,
                    result |-> checkRateLimitResult(rateLimitStore, id, maxReq, now),
                    nth |-> window'[id].calls,
                    at |-> now,
                    renewed |-> id \in DOMAIN window /\ ~windowOpen(window, id, now)]
    /\ UNCHANGED <<now, env, inv, rejectedLater, maxReq, text, verdict>>

\* isGibberish(text)
CallIsGibberish ==
    /\ verdict = "none"
    /\ verdict' = IF isGibberish(text) THEN "true" ELSE "false"
    /\ UNCHANGED <<now, rateLimitStore, env, inv, window, rejectedLater, lastCall, maxReq,
                 text>>

\* lines 148-150
clientIp(xff, xri) == IF xff # "" THEN xff ELSE IF xri # "" THEN xri ELSE "unknown"

\* lines 118-155: the method gate, the client identifier, request.text() is awaited
Receive(p, method, xff, xri) ==
    /\ inv[p].pc = "idle"
    /\ inv' = [inv EXCEPT ![p] =
                 LET r == [inv[p] EXCEPT !.method = method]
                 IN  IF method = "OPTIONS" THEN respond(r, PreflightResponse)
                     ELSE IF method # "POST"
                     THEN respond(r, ErrorResponse(405, "Method not allowed"))
                     ELSE [r EXCEPT !.pc = "awaitText", !.ip = clientIp(xff, xri)]]
    /\ UNCHANGED <<now, rateLimitStore, env, window, rejectedLater, lastCall, maxReq,
                 text, verdict>>

\* lines 155-395, up to the next await: the body is parsed and the pipeline
\* runs through the rate limiter and the validations to the captcha call, the
\* beginSend call or a response
ReadBody(p, body) ==
    /\ inv[p].pc = "awaitText"
    /\ LET got == [inv[p] EXCEPT !.body = body]
           pre == beforeRateLimit(body)
           id == inv[p].ip
           allowed == checkRateLimitResult(rateLimitStore, id, HandlerMaxRequests, now)
           after == windowAfter(window, id, now, allowed)
           checked == [got EXCEPT !.rl = IF allowed THEN "allowed" ELSE "denied",
                                  !.passedBefore = passedSoFar(window, id, now),
                                  !.slotWindow = IF allowed THEN after[id].start ELSE -1]
           post == afterRateLimit(body.fields)
           next == IF ~allowed
                   THEN respond(checked, ErrorResponse(429,
                            "Too many requests. Please try again later."))
                   ELSE IF post # NoResponse THEN respond(checked, post)
                   ELSE captchaStep(checked, env)
       IN  IF pre # NoResponse
           THEN /\ inv' = [inv EXCEPT ![p] = respond(got, pre)]
                /\ UNCHANGED <<rateLimitStore, window, rejectedLater>>
           ELSE /\ rateLimitStore' = checkRateLimitStore(rateLimitStore, id,
                                         HandlerMaxRequests, WindowMs, now)
                /\ window' = after
                /\ inv' = [inv EXCEPT ![p] = next]
                /\ rejectedLater' =
                       IF validationFailed(next)
                       THEN noteRejected(rejectedLater, after, id, next.slotWindow)
                       ELSE rejectedLater
    /\ UNCHANGED <<now, env, lastCall, maxReq, text, verdict>>

\* line 53: the fetch of validateRecaptcha settles
FetchDone(p, ok) ==
    /\ inv[p].pc = "awaitFetch"
    /\ inv' = [inv EXCEPT ![p] =
                 IF ok THEN [inv[p] EXCEPT !.pc = "awaitJson"]
                 ELSE captchaDone(inv[p], TransportFailure, env)]
    /\ rejectedLater' =
           IF validationFailed(inv'[p])
           THEN noteRejected(rejectedLater, window, inv[p].ip, inv[p].slotWindow)
           ELSE rejectedLater
    /\ UNCHANGED <<now, rateLimitStore, env, window, lastCall, maxReq, text, verdict>>

\* line 61: response.json() settles
JsonDone(p, data) ==
    /\ inv[p].pc = "awaitJson"
    /\ inv' = [inv EXCEPT ![p] = captchaDone(inv[p], data, env)]
    /\ rejectedLater' =
           IF validationFailed(inv'[p])
           THEN noteRejected(rejectedLater, window, inv[p].ip, inv[p].slotWindow)
           ELSE rejectedLater
    /\ UNCHANGED <<now, rateLimitStore, env, window, lastCall, maxReq, text, verdict>>

sendFailed(r, outcome) ==
    respond([r EXCEPT !.sendOutcome = outcome], SendFailedResponse(outcome))

\* line 395: beginSend settles
BeginSendDone(p, outcome) ==
    /\ inv[p].pc = "awaitBeginSend"
    /\ inv' = [inv EXCEPT ![p] =
                 IF outcome = "ok" THEN [inv[p] EXCEPT !.pc = "awaitPoll"]
                 ELSE sendFailed(inv[p], outcome)]
    /\ UNCHANGED <<now, rateLimitStore, env, window, rejectedLater, lastCall, maxReq,
                 text, verdict>>

\* lines 396-426: pollUntilDone settles
PollDone(p, outcome) ==
    /\ inv[p].pc = "awaitPoll"
    /\ inv' = [inv EXCEPT ![p] =
                 IF outcome = "ok"
                 THEN respond([inv[p] EXCEPT !.sendOutcome = "ok"], SuccessResponse)
                 ELSE sendFailed(inv[p], outcome)]
    /\ UNCHANGED <<now, rateLimitStore, env, window, rejectedLater, lastCall, maxReq,
                 text, verdict>>

\* the response has gone out; the slot takes the next request
Return(p) ==
    /\ inv[p].pc = "done"
    /\ inv' = [inv EXCEPT ![p] = IdleInv]
    /\ UNCHANGED <<now, rateLimitStore, env, window, rejectedLater, lastCall, maxReq,
                 text, verdict>>

\* ---------------------------------------------------------- specifications
Alphabet == {"a", "E", "b", "c", "\n"}
Texts == UNION { [1..n -> Alphabet] : n \in 0..MaxLen }

InitCommon ==
    /\ now = 0
    /\ rateLimitStore = <<>>
    /\ window = <<>>
    /\ lastCall = NoCall
    /\ inv = [p \in Procs |-> IdleInv]

\* the handler, one request at a time, every body and every configuration
Init ==
    /\ InitCommon
    /\ rejectedLater = NotFollowed
    /\ env \in Environments
    /\ maxReq = DefaultMaxRequests
    /\ text = <<>>
    /\ verdict = "none"

Next ==
    \/ \E m \in Methods, xff \in ForwardedFor, xri \in RealIp : Receive(1, m, xff, xri)
    \/ \E body \in AllBodies : ReadBody(1, body)
    \/ \E ok \in BOOLEAN : FetchDone(1, ok)
    \/ \E data \in CaptchaAnswers : JsonDone(1, data)
    \/ \E outcome \in {"ok"} \cup FaultMessages : BeginSendDone(1, outcome)
    \/ \E outcome \in {"ok"} \cup FaultMessages : PollDone(1, outcome)
    \/ Return(1)

Spec == Init /\ [][Next]_vars

\* the handler, NumInv invocations interleaved at their await points, the
\* clock moving
InitConc ==
    /\ InitCommon
    /\ rejectedLater = NotFollowed
    /\ env = [secret |-> TRUE, conn |-> "valid"]
    /\ maxReq = DefaultMaxRequests
    /\ text = <<>>
    /\ verdict = "none"

NextConc ==
    \/ Tick(WindowMs)
    \/ \E p \in Procs : Receive(p, "POST", "", "")
    \/ \E p \in Procs, body \in ConcBodies : ReadBody(p, body)
    \/ \E p \in Procs, outcome \in {"ok"} \cup FaultMessages : BeginSendDone(p, outcome)
    \/ \E p \in Procs, outcome \in {"ok"} \cup FaultMessages : PollDone(p, outcome)
    \/ \E p \in Procs : Return(p)

SpecConc == InitConc /\ [][NextConc]_vars

\* the event loop runs every continuation whose promise has settled, requests
\* keep arriving and the clock keeps moving
FairConc ==
    /\ WF_vars(NextConc)
    /\ \A p \in Procs :
           /\ WF_vars(\E body \in ConcBodies : ReadBody(p, body))
           /\ WF_vars(\E outcome \in {"ok"} \cup FaultMessages : BeginSendDone(p, outcome))
           /\ WF_vars(\E outcome \in {"ok"} \cup FaultMessages : PollDone(p, outcome))
           /\ WF_vars(Return(p))

SpecConcFair == SpecConc /\ FairConc

\* the handler, one request at a time, the clock moving, the slots of every
\* identifier followed
SlotIds == { clientIp(xff, "") : xff \in ForwardedFor }
InitSlots ==
    /\ InitCommon
    /\ rejectedLater = [id \in SlotIds |-> Unrejected]
    /\ env \in {e \in Environments : e.secret /\ e.conn # "invalid"}
    /\ maxReq = DefaultMaxRequests
    /\ text = <<>>
    /\ verdict = "none"

NextSlots ==
    \/ Tick(WindowMs)
    \/ \E m \in Methods, xff \in ForwardedFor : Receive(1, m, xff, "")
    \/ \E body \in SlotBodies : ReadBody(1, body)
    \/ \E ok \in BOOLEAN : FetchDone(1, ok)
    \/ \E data \in SlotAnswers : JsonDone(1, data)
    \/ \E outcome \in {"ok", "ECONNRESET"} : BeginSendDone(1, outcome)
    \/ \E outcome \in {"ok", "ECONNRESET"} : PollDone(1, outcome)
    \/ Return(1)

SpecSlots == InitSlots /\ [][NextSlots]_vars

\* direct calls of the rate limiter
InitRL ==
    /\ InitCommon
    /\ rejectedLater = NotFollowed
    /\ env = [secret |-> TRUE, conn |-> "valid"]
    /\ maxReq \in 1..MaxMaxRequests
    /\ text = <<>>
    /\ verdict = "none"

NextRL ==
    \/ \E d \in {1, WindowMs} : Tick(d)
    \/ \E id \in {"10.0.0.1", "unknown"} : CallCheckRateLimit(id)

SpecRL == InitRL /\ [][NextRL]_vars

\* calls of isGibberish
InitGib ==
    /\ InitCommon
    /\ rejectedLater = NotFollowed
    /\ env = [secret |-> TRUE, conn |-> "valid"]
    /\ maxReq = DefaultMaxRequests
    /\ text \in Texts
    /\ verdict = "none"

NextGib == CallIsGibberish

SpecGib == InitGib /\ [][NextGib]_vars

\* ================================================================== claims

\* C1 (SpecRL).  For every identifier, whatever calls are made for other
\* identifiers in between: a call returns true exactly when it is among the
\* first maxRequests calls (3 by default) of its identifier's window, where a
\* window opens with the identifier's first call or with its first call made
\* after the previous window's expiry (now > start + windowMs); and the call
\* that opens a window leaves the record with count = 1 and expiry
\* now + windowMs.
C1_RateLimitWindow ==
    lastCall.id # "" =>
        /\ lastCall.result = (lastCall.nth <= maxReq)
        /\ lastCall.nth = 1 =>
               /\ lastCall.id \in DOMAIN rateLimitStore
               /\ rateLimitStore[lastCall.id] =
                      [count |-> 1, resetTime |-> lastCall.at + WindowMs]

\* a call that finds its identifier's window expired and reopens it, after the
\* other identifier has used up its own window
C1_Witness ==
    /\ maxReq = DefaultMaxRequests
    /\ lastCall.renewed
    /\ lastCall.result
    /\ lastCall.at = WindowMs + 1
    /\ \E other \in DOMAIN rateLimitStore :
           /\ other # lastCall.id
           /\ rateLimitStore[other].count = DefaultMaxRequests

\* C10 (SpecGib).  isGibberish returns true if and only if the text has length
\* >= 2 and has no vowel, or more than 0.8 of its characters are not vowels,
\* or it holds three identical characters in a row; false for the empty and
\* the one-character strings.
C10_GibberishRule ==
    verdict # "none" =>
        ((verdict = "true") <=>
            /\ Len(text) >= 2
            /\ \/ \A i \in 1..Len(text) : text[i] \notin Vowels
               \/ 10 * Cardinality({i \in 1..Len(text) : text[i] \notin Vowels})
                      > 8 * Len(text)
               \/ \E i \in 1..(Len(text) - 2) :
                      text[i] = text[i + 1] /\ text[i + 1] = text[i + 2])

\* the same rule on the texts that hold no line terminator
GibberishRuleOnOneLine ==
    (\A i \in 1..Len(text) : text[i] \notin LineTerminators) => C10_GibberishRule

\* ------------------------------------------------- the handler's claims
\* what the claims say of one invocation r
errorOf(resp) == {kv[2] : kv \in {x \in resp.body : x[1] = "error"}}
keysOf(resp) == {kv[1] : kv \in resp.body}
hasToken(r) == truthy(r.body.fields, "recaptchaToken")
\* every step before the captcha step has passed
reachedCaptcha(r) ==
    /\ r.pc \notin {"idle", "awaitText"}
    /\ r.method = "POST"
    /\ beforeRateLimit(r.body) = NoResponse
    /\ r.rl = "allowed"
    /\ afterRateLimit(r.body.fields) = NoResponse
verified(r) == r.pc \notin {"awaitFetch", "awaitJson"}
answerAccepted(data) ==
    data.kind = "object" /\ data.success = "true" /\ data.score >= ScoreThreshold
\* every step before dispatch has passed
reachedDispatch(r) ==
    /\ reachedCaptcha(r)
    /\ verified(r)
    /\ hasToken(r) => env.secret /\ answerAccepted(r.captcha)

\* the status the fixed order of steps gives a finished invocation
claimedStatus(r) ==
    LET f == r.body.fields
    IN  IF r.method = "OPTIONS" THEN 200
        ELSE IF r.method # "POST" THEN 405
        ELSE IF r.body.kind # "object" THEN 400
        ELSE IF honeypotTriggered(f) THEN 400
        ELSE IF blockedEmail(f) THEN 400
        ELSE IF r.passedBefore >= HandlerMaxRequests THEN 429
        ELSE IF \E i \in 1..Len(requiredFields) : fieldMissing(f, requiredFields[i])
        THEN 400
        ELSE IF \E i \in 1..Len(maxLengthFields) : fieldTooLong(f, maxLengthFields[i])
        THEN 400
        ELSE IF ~isValidEmail(f["email"]) \/ ~isValidPhone(f["phone"])
                \/ ~isValidZipCode(f["zipCode"])
        THEN 400
        ELSE IF isGibberish(f["firstName"]) \/ isGibberish(f["lastName"]) THEN 400
        ELSE IF truthy(f, "description") /\ containsUrls(f["description"]) THEN 400
        ELSE IF hasToken(r) /\ ~env.secret THEN 500
        ELSE IF hasToken(r) /\ ~answerAccepted(r.captcha) THEN 400
        ELSE IF env.conn # "valid" \/ r.sendOutcome \in FaultMessages THEN 500
        ELSE 200

firstFailingStep(r) ==
    /\ r.resp.status = claimedStatus(r)
    /\ (r.method = "POST" /\ r.body.kind = "object"
            /\ honeypotTriggered(r.body.fields))
           => r.resp = ErrorResponse(400, "Spam detected")

\* C2 (Spec).  A finished invocation has returned the response of the first
\* failing step in the order method gate, body parse, honeypot, blocklist,
\* rate limit, required fields, lengths, formats, gibberish, URL, captcha,
\* dispatch, and 200 when no step fails; a submission with a filled honeypot
\* gets the honeypot error whatever else is wrong with it.
C2_FirstFailingStep ==
    \A p \in Procs : inv[p].pc = "done" => firstFailingStep(inv[p])

\* the same order on the bodies that parse to an object
PipelineOrderOnObjects ==
    \A p \in Procs :
        (inv[p].pc = "done" /\ inv[p].body.kind \in {"none", "invalid", "object"})
            => firstFailingStep(inv[p])

PipelineOrderWitness ==
    \E p \in Procs :
        /\ inv[p].pc = "done"
        /\ inv[p].body.kind = "object"
        /\ honeypotTriggered(inv[p].body.fields)
        /\ blockedEmail(inv[p].body.fields)
        /\ \E id \in DOMAIN rateLimitStore :
               rateLimitStore[id].count = HandlerMaxRequests

dispatchedOnce(r, expected) ==
    /\ r.dispatchCalls = (IF expected THEN 1 ELSE 0)
    /\ r.dispatchCalls > 0 => r.recipients = RECIPIENT_ADDRESSES
    /\ r.pc = "done" =>
           ((r.resp = SuccessResponse) <=> (r.dispatchCalls = 1 /\ r.sendOutcome = "ok"))
    /\ r.pc = "done" => (r.resp.status = 200 /\ r.method # "OPTIONS"
                             => r.resp = SuccessResponse)

\* C3 as claimed (Spec).  The handler calls the Email Dispatcher 0 times when
\* a step before dispatch rejects the request and exactly once otherwise, with
\* the configured recipients, and answers 200 with the acknowledgment if and
\* only if that call completed.
C3_OneDispatchPerPassedRequest ==
    \A p \in Procs :
        inv[p].pc \notin {"idle", "awaitText", "awaitFetch", "awaitJson"}
            => dispatchedOnce(inv[p], reachedDispatch(inv[p]))

\* C3 as amended (Spec).  The handler calls the Email Dispatcher 0 times when
\* a step before dispatch rejects the request or when the connection string
\* is missing or refused by the client constructor, and exactly once
\* otherwise, with the configured recipients; it answers 200 with the
\* acknowledgment if and only if that one call completed; no call is repeated.
C3_OneDispatchWhenConfigured ==
    \A p \in Procs :
        /\ inv[p].dispatchCalls <= 1
        /\ inv[p].pc \notin {"idle", "awaitText", "awaitFetch", "awaitJson"}
               => dispatchedOnce(inv[p],
                                 reachedDispatch(inv[p]) /\ env.conn = "valid")

\* a 200 after one completed call, and before it a description with a URL
\* rejected without a call
C3_Witness ==
    \E p \in Procs :
        /\ inv[p].pc = "done"
        /\ inv[p].resp = SuccessResponse
        /\ inv[p].dispatchCalls = 1
        /\ truthy(inv[p].body.fields, "description")

C3_WitnessRejected ==
    \E p \in Procs :
        /\ inv[p].pc = "done"
        /\ inv[p].resp = ErrorResponse(400, "URLs are not allowed in the description")
        /\ inv[p].dispatchCalls = 0

\* C4 (Spec).  Of an invocation that has passed every step before the captcha
\* step: without a token no verification call is made and the dispatch step
\* is entered; with a token and no secret the answer is the 500
\* "reCAPTCHA not configured" and neither call is made; with a token and the
\* secret exactly one verification call is made and, once it has settled, the
\* dispatch step is entered if and only if the answer holds success = true and
\* a score >= 0.5; transport and parse failures and missing fields end in the
\* 400 captcha error.  No other invocation makes a verification call.
C4_CaptchaGate ==
    \A p \in Procs :
        LET r == inv[p]
        IN  IF ~reachedCaptcha(r) THEN r.verifyCalls = 0
            ELSE IF ~hasToken(r) THEN r.verifyCalls = 0 /\ r.sendEntered
            ELSE IF ~env.secret
            THEN /\ r.pc = "done"
                 /\ r.resp = ErrorResponse(500, "reCAPTCHA not configured")
                 /\ r.verifyCalls = 0
                 /\ r.dispatchCalls = 0
                 /\ ~r.sendEntered
            ELSE /\ r.verifyCalls = 1
                 /\ verified(r) =>
                        /\ r.sendEntered <=> answerAccepted(r.captcha)
                        /\ ~answerAccepted(r.captcha) =>
                               /\ r.pc = "done"
                               /\ r.resp = ErrorResponse(400, "reCAPTCHA validation failed")
                               /\ r.dispatchCalls = 0

\* a verified token whose score is exactly the threshold goes on to dispatch
C4_Witness ==
    \E p \in Procs :
        /\ hasToken(inv[p])
        /\ inv[p].verifyCalls = 1
        /\ inv[p].captcha.kind = "object"
        /\ inv[p].captcha.score = ScoreThreshold
        /\ inv[p].sendEntered

captchaFaulted(r) ==
    r.pc = "done" /\ r.verifyCalls = 1 /\ r.captcha.kind \in {"transport", "parse"}

\* C5 as claimed (Spec).  When the verification call fails in transport or in
\* parsing, the client receives a 500 and no dispatch call is made.
C5_CaptchaFaultIs500 ==
    \A p \in Procs :
        captchaFaulted(inv[p])
            => inv[p].resp.status = 500 /\ inv[p].dispatchCalls = 0

\* C5 as amended (Spec).  When the verification call fails in transport or in
\* parsing, the fault is caught inside the verifier and the client receives
\* the 400 "reCAPTCHA validation failed" response, and no dispatch call is
\* made.
C5_CaptchaFaultIs400 ==
    \A p \in Procs :
        captchaFaulted(inv[p])
            => /\ inv[p].resp = ErrorResponse(400, "reCAPTCHA validation failed")
               /\ inv[p].dispatchCalls = 0

C5_Witness ==
    \E p \in Procs : captchaFaulted(inv[p]) /\ inv[p].captcha.kind = "transport"

\* C6 (SpecConc).  Two runs of the handler on the same request whose dispatch
\* fails return the same response, whatever the dispatcher's fault says.
C6_NoFaultDetail ==
    \A p, q \in Procs :
        (/\ inv[p].pc = "done" /\ inv[q].pc = "done"
         /\ inv[p].sendOutcome \in FaultMessages
         /\ inv[q].sendOutcome \in FaultMessages
         /\ inv[p].method = inv[q].method
         /\ inv[p].ip = inv[q].ip
         /\ inv[p].body = inv[q].body)
            => inv[p].resp = inv[q].resp

\* C7 (Spec).  A POST whose body is not JSON, or is JSON but no object, is
\* answered 400 "Invalid request format" and has not reached the rate
\* limiter.
C7_MalformedIs400 ==
    \A p \in Procs :
        (/\ inv[p].pc = "done"
         /\ inv[p].method = "POST"
         /\ inv[p].body.kind \in {"invalid", "null", "primitive"})
            => /\ inv[p].resp = ErrorResponse(400, "Invalid request format")
               /\ inv[p].rl = "none"

corsHeader == <<"Access-Control-Allow-Origin", "*">>
jsonHeader == <<"Content-Type", "application/json">>
jsonBody(r) ==
    IF r.resp.status = 200 THEN {"success", "message"} \subseteq keysOf(r.resp)
    ELSE "error" \in keysOf(r.resp)

\* C8 as claimed (Spec).  Every response carries Access-Control-Allow-Origin: *
\* and Content-Type: application/json, and every response but the preflight's
\* holds error on failure or success and message on success.
C8_HeadersOnEveryResponse ==
    \A p \in Procs :
        inv[p].pc = "done"
            => /\ {corsHeader, jsonHeader} \subseteq inv[p].resp.headers
               /\ inv[p].method # "OPTIONS" => jsonBody(inv[p])

\* C8 as amended (Spec).  Every response carries Access-Control-Allow-Origin: *;
\* every response but the preflight's also carries Content-Type:
\* application/json and holds error on failure or success and message on
\* success; the preflight response has no body and no Content-Type.
C8_HeadersAmended ==
    \A p \in Procs :
        inv[p].pc = "done"
            => /\ corsHeader \in inv[p].resp.headers
               /\ IF inv[p].method = "OPTIONS"
                  THEN inv[p].resp.body = {} /\ jsonHeader \notin inv[p].resp.headers
                  ELSE jsonHeader \in inv[p].resp.headers /\ jsonBody(inv[p])

C8_Witness ==
    \E p \in Procs :
        /\ inv[p].pc = "done"
        /\ inv[p].resp.status = 429
        /\ {corsHeader, jsonHeader} \subseteq inv[p].resp.headers

miscount ==
    \/ \E id \in DOMAIN window : window[id].passed > HandlerMaxRequests
    \/ \E p \in Procs :
           /\ inv[p].rl = "denied"
           /\ inv[p].passedBefore < HandlerMaxRequests

\* C9 as claimed (SpecConcFair).  With invocations interleaved at their await
\* points, the count goes wrong: more than maxRequests requests of an
\* identifier pass the rate-limit step within one window, or a request is
\* denied although fewer than maxRequests have passed in that window.
C9_CountGoesWrong == <>miscount

\* C9 as amended (SpecConcFair).  checkRateLimit holds no await, so it runs
\* to its end between two steps of any other invocation and the count is
\* exact under every interleaving: never more than maxRequests requests of an
\* identifier pass within one window, and a request is denied only when
\* maxRequests requests have passed in its window, allowed only when fewer
\* have.
C9_CountIsExact ==
    /\ \A id \in DOMAIN window : window[id].passed <= HandlerMaxRequests
    /\ \A p \in Procs :
           /\ inv[p].rl = "denied" => inv[p].passedBefore = HandlerMaxRequests
           /\ inv[p].rl = "allowed" => inv[p].passedBefore < HandlerMaxRequests

\* a request is denied while another request of the same identifier, let
\* through in the same window, is still waiting for the dispatcher
C9_Witness ==
    \E p, q \in Procs :
        /\ inv[p].rl = "denied"
        /\ inv[q].rl = "allowed"
        /\ inv[q].pc \in {"awaitBeginSend", "awaitPoll"}
        /\ inv[p].ip = inv[q].ip
        /\ now > 0

\* C12 (SpecRL).  Over any sequence of checkRateLimit calls with a fixed
\* maxRequests >= 1, for any identifiers and at any times: every record in the
\* table has 1 <= count <= maxRequests, and an identifier once inserted is
\* never removed: every identifier a call was ever made for still has its
\* record, an expired record being replaced in place by the call that finds it
\* expired.
C12_TableInvariant ==
    /\ maxReq >= 1
    /\ \A id \in DOMAIN rateLimitStore :
           /\ 1 <= rateLimitStore[id].count
           /\ rateLimitStore[id].count <= maxReq
    /\ DOMAIN window \subseteq DOMAIN rateLimitStore
    /\ lastCall.renewed =>
           /\ lastCall.id \in DOMAIN rateLimitStore
           /\ rateLimitStore[lastCall.id].count = 1

\* one identifier's record is full and has expired, untouched, while a call
\* for the other identifier has just replaced that one's expired record
C12_Witness ==
    /\ lastCall.renewed
    /\ DOMAIN rateLimitStore = {"10.0.0.1", "unknown"}
    /\ \E id \in DOMAIN rateLimitStore :
           /\ id # lastCall.id
           /\ rateLimitStore[id].count = maxReq
           /\ maxReq > 1
           /\ now > rateLimitStore[id].resetTime

\* the slots of id's window that are taken at time t, by the table
slotsTaken(store, id, t) == IF rateLimitFresh(store, id, t) THEN 0 ELSE store[id].count
\* what one step of invocation p does to the rate-limit table
slotStep(p) ==
    LET r == inv[p]
        r2 == inv'[p]
        id == r.ip
    IN  \* answered at the method gate, body parse, honeypot or blocklist
        /\ (r.pc # "done" /\ r2.pc = "done" /\ r2.rl = "none") =>
               rateLimitStore' = rateLimitStore
        \* denied by the rate limiter
        /\ (r.rl = "none" /\ r2.rl = "denied") =>
               /\ rateLimitStore' = rateLimitStore
               /\ r2.pc = "done"
               /\ r2.resp.status = 429
               /\ r2.dispatchCalls = 0
        \* let through by the rate limiter: one slot of its identifier
        /\ (r.rl = "none" /\ r2.rl = "allowed") =>
               /\ DOMAIN rateLimitStore' = DOMAIN rateLimitStore \cup {id}
               /\ rateLimitStore'[id].count = slotsTaken(rateLimitStore, id, now) + 1
               /\ \A k \in DOMAIN rateLimitStore \ {id} :
                      rateLimitStore'[k] = rateLimitStore[k]
        \* whatever comes of it later, the slot stays taken
        /\ (r.rl = "allowed" /\ r2 # r) => rateLimitStore' = rateLimitStore
        \* the fourth request of a window whose three slots went to requests
        \* that a later validation step answered
        /\ (/\ r.pc = "awaitText" /\ r2.pc # "awaitText"
            /\ r2.body = object(BaseFields)
            /\ windowOpen(window, id, now)
            /\ rejectedSoFar(rejectedLater, window, id) = HandlerMaxRequests) =>
               /\ r2.pc = "done"
               /\ r2.resp.status = 429
               /\ r2.dispatchCalls = 0

\* C11 (SpecSlots).  Which requests consume a rate-limit slot: a request
\* answered at the method gate, body parse, honeypot or blocklist step leaves
\* the rate-limit table unchanged, and so does a request the rate limiter
\* denies (429); a request the rate limiter lets through takes one slot of its
\* identifier, and no later step gives it back.  Hence, after 3 requests of
\* one identifier in one window that were each answered by a later validation
\* step, a fully valid 4th request of that identifier in that window is
\* answered 429 and makes no dispatch call.
C11_SlotConsumption == [][\A p \in Procs : slotStep(p)]_vars

\* at the last instant of a window, a fully valid request is denied: the
\* window's three slots went to requests answered by a later validation step;
\* the other identifier holds a record of its own
C11_Witness ==
    \E p \in Procs :
        LET r == inv[p]
        IN  /\ r.pc = "done"
            /\ r.rl = "denied"
            /\ r.body = object(BaseFields)
            /\ r.resp.status = 429
            /\ r.dispatchCalls = 0
            /\ rejectedSoFar(rejectedLater, window, r.ip) = HandlerMaxRequests
            /\ rateLimitStore[r.ip].count = HandlerMaxRequests
            /\ now = window[r.ip].start + WindowMs
            /\ \E k \in DOMAIN rateLimitStore : k # r.ip

\* slots taken by requests that went on to each later outcome: a validation
\* 400, a captcha 400, a dispatch 500 and the success 200
C11_WitnessOutcomes ==
    \E p \in Procs :
        /\ inv[p].pc = "done"
        /\ inv[p].rl = "allowed"
        /\ inv[p].resp.status = 500
        /\ inv[p].sendOutcome = "ECONNRESET"
        /\ rateLimitStore[inv[p].ip].count = HandlerMaxRequests
        /\ rejectedSoFar(rejectedLater, window, inv[p].ip) = 1

====
